---- MODULE Spec2Model ----
(***************************************************************************)
(* genmanysuns.py: the pipeline of main() over the text of the supplied    *)
(* sun description and the working files it writes.                        *)
(*                                                                         *)
(* Text is a sequence of items.  An item is a whitespace character ("SP",  *)
(* "TAB", "NL") or an atom: an indivisible run of non-whitespace           *)
(* characters ("void", "0.5", "#").  Atoms that abut form one token, as    *)
(* characters do.  Coordinates are fixed-point, in thousandths; angles are *)
(* whole degrees.                                                          *)
(***************************************************************************)
EXTENDS Integers, Sequences, FiniteSets, TLC

VARIABLES pc, err, orig, sunfile, executed, results,
          light_lines, source_lines,
          RGB_sun_radiance, XYZ_sun_direction, altitude, azimuth,
          sun001, rendered, num_suns, irrad_001, irrad_NNN, rad_NNN,
          nnn_sun, new_lines, fnstatic_exists, fnstatic

vars == <<pc, err, orig, sunfile, executed, results,
          light_lines, source_lines,
          RGB_sun_radiance, XYZ_sun_direction, altitude, azimuth,
          sun001, rendered, num_suns, irrad_001, irrad_NNN, rad_NNN,
          nnn_sun, new_lines, fnstatic_exists, fnstatic>>

\* ---------------------------------------------------------------- bounds
MaxPre == 2
MaxPost == 2
MaxCount == 1

\* ------------------------------------------------------------------ text
IsWs(a) == a \in {"SP", "TAB", "NL"}

\* Atoms whose first / last character is a word character (\w of re).
StartsWordChar(a) == ~IsWs(a) /\ a \notin {"#", "!gensky", "!gendaylit", "-1", "-0.5"}
EndsWordChar(a) == ~IsWs(a) /\ a \notin {"#"}

Min(a, b) == IF a <= b THEN a ELSE b
Max(a, b) == IF a >= b THEN a ELSE b
Abs(a) == IF a < 0 THEN -a ELSE a
Sgn(a) == IF a < 0 THEN -1 ELSE IF a > 0 THEN 1 ELSE 0

\* s[i:] and s[:n] of Python (1-based here, bounds clipped).
From(s, i) == SubSeq(s, Max(i, 1), Len(s))
Upto(s, n) == SubSeq(s, 1, Min(n, Len(s)))

\* The place of the first "NL" at or after i, Len(c) + 1 when there is none.
RECURSIVE line_end(_, _)
line_end(c, i) == IF i > Len(c) \/ c[i] = "NL" THEN i ELSE line_end(c, i + 1)

\* file.readlines(): the lines, each with its terminator, the last maybe without.
RECURSIVE readlines_from(_, _)
readlines_from(c, i) ==
    IF i > Len(c) THEN <<>>
    ELSE LET p == Min(line_end(c, i), Len(c))
         IN <<SubSeq(c, i, p)>> \o readlines_from(c, p + 1)

readlines(c) == readlines_from(c, 1)

\* file.writelines(lines): the lines one after the other, nothing between.
RECURSIVE writelines(_)
writelines(lines) ==
    IF lines = <<>> THEN <<>> ELSE Head(lines) \o writelines(Tail(lines))

\* '\n'.join(lines)
RECURSIVE join(_)
join(lines) ==
    IF lines = <<>> THEN <<>>
    ELSE IF Len(lines) = 1 THEN lines[1]
    ELSE lines[1] \o <<"NL">> \o join(Tail(lines))

\* str.strip(): leading and trailing whitespace removed.
RECURSIVE lstrip(_)
lstrip(l) == IF l # <<>> /\ IsWs(l[1]) THEN lstrip(Tail(l)) ELSE l
RECURSIVE rstrip(_)
rstrip(l) == IF l # <<>> /\ IsWs(l[Len(l)]) THEN rstrip(Upto(l, Len(l) - 1)) ELSE l
strip(l) == rstrip(lstrip(l))

\* re.sub(r'\s+', ' ', line): every run of whitespace becomes one space.
RECURSIVE sub_ws(_)
sub_ws(l) ==
    IF l = <<>> THEN <<>>
    ELSE IF IsWs(l[1]) THEN <<"SP">> \o sub_ws(lstrip(l))
    ELSE <<l[1]>> \o sub_ws(Tail(l))

\* The place of the first non-whitespace item at or after i (Len(l) + 1 when
\* there is none), and of the last item of the token that starts at i.
RECURSIVE skip_ws(_, _)
skip_ws(l, i) == IF i <= Len(l) /\ IsWs(l[i]) THEN skip_ws(l, i + 1) ELSE i
RECURSIVE token_end(_, _)
token_end(l, i) == IF i < Len(l) /\ ~IsWs(l[i + 1]) THEN token_end(l, i + 1) ELSE i

\* str.split(): the tokens, each the atoms of one run of non-whitespace.
RECURSIVE split_from(_, _)
split_from(l, i) ==
    LET b == skip_ws(l, i)
    IN IF b > Len(l) THEN <<>>
       ELSE LET e == token_end(l, b)
            IN <<SubSeq(l, b, e)>> \o split_from(l, e + 1)

split(l) == split_from(l, 1)

\* line.startswith('w1 w2 w3')
startswith(l, w) ==
    Len(l) >= 5 /\ SubSeq(l, 1, 5) = <<w[1], "SP", w[2], "SP", w[3]>>

\* The end of the whitespace run that starts at i (i - 1 when there is none).
RECURSIVE WsEnd(_, _)
WsEnd(l, i) == IF i <= Len(l) /\ IsWs(l[i]) THEN WsEnd(l, i + 1) ELSE i - 1

\* re.search(r'\bw1\s+\s*w2\s+\s*w3\b', line)
re_search(l, w) ==
    \E i \in 1..Len(l) :
        /\ l[i] = w[1]
        /\ (i = 1 \/ ~EndsWordChar(l[i - 1]))
        /\ LET j == WsEnd(l, i + 1) + 1
           IN /\ j > i + 1
              /\ j <= Len(l)
              /\ l[j] = w[2]
              /\ LET k == WsEnd(l, j + 1) + 1
                 IN /\ k > j + 1
                    /\ k <= Len(l)
                    /\ l[k] = w[3]
                    /\ (k = Len(l) \/ ~StartsWordChar(l[k + 1]))

void_light_solar == <<"void", "light", "solar">>
solar_source_sun == <<"solar", "source", "sun">>

\* substring test '!gendaylit' in line or '!gensky' in line
has_macro(l) == \E i \in 1..Len(l) : l[i] \in {"!gendaylit", "!gensky"}

\* --------------------------------------------------------------- numbers
NumAtoms == {"-1", "-0.5", "0", "0.5", "1", "3", "4"}

\* float(atom), in thousandths
NumVal(a) ==
    CASE a = "-1" -> -1000
      [] a = "-0.5" -> -500
      [] a = "0" -> 0
      [] a = "0.5" -> 500
      [] a = "1" -> 1000
      [] a = "3" -> 3000
      [] a = "4" -> 4000

\* float(token) succeeds.  A token of several atoms holds a non-numeric atom
\* in every input drawn here (no two numeric atoms ever abut).
is_float(tok) == Len(tok) = 1 /\ tok[1] \in NumAtoms

\* sin of 0, 15, ..., 90 degrees, in thousandths
SinTab == <<0, 259, 500, 707, 866, 966, 1000>>

\* math.degrees(math.asin(r / 1000)) for -1000 <= r <= 1000, to the next
\* tabulated angle away from zero: 0 exactly at r = 0, +-90 at r = +-1000,
\* odd and monotone as asin is.
asin_deg(r) ==
    LET k == CHOOSE j \in 1..Len(SinTab) :
                 SinTab[j] >= Abs(r) /\ \A i \in 1..(j - 1) : SinTab[i] < Abs(r)
    IN Sgn(r) * 15 * (k - 1)

\* math.cos(math.radians(a)) in thousandths, a a tabulated angle
cos_milli(a) == SinTab[((90 - Abs(a)) \div 15) + 1]

\* x / cos(90 degrees): cos(pi/2) is 6.1e-17 in floating point, not 0, so the
\* quotient is 0 for x = 0 and far outside [-1, 1] otherwise.
RatioAtZenith == 1000000

\* XYZ_sun_direction[0] / math.cos(math.radians(altitude)), in thousandths
xDIVcos(x, alt) ==
    IF cos_milli(alt) = 0 THEN Sgn(x) * RatioAtZenith
    ELSE Sgn(x) * ((Abs(x) * 1000) \div cos_milli(alt))

\* "Values higher than 1 are rounded to 1 to prevent a math error"
clamp(r) == IF r > 1000 THEN 1000 ELSE r

\* The three branches of the azimuth; 0 when no branch is taken.
branch(x, y) ==
    IF x < 0 /\ y < 0 THEN 1
    ELSE IF y >= 0 THEN 2
    ELSE IF x >= 0 /\ y < 0 THEN 3
    ELSE 0

azimuth_of(x, y, azimuth_x) ==
    CASE branch(x, y) = 1 -> azimuth_x
      [] branch(x, y) = 2 -> 180 - azimuth_x
      [] branch(x, y) = 3 -> 360 + azimuth_x

\* ------------------------------------------------- find_sun_properties
\* scan without the test for a blank line
RECURSIVE scan_collecting_blank(_, _, _, _)
scan_collecting_blank(lines, kw, i, res) ==
    IF i > Len(lines) THEN res
    ELSE IF startswith(lines[i], kw) /\ Len(res) < 4
         THEN scan_collecting_blank(lines, kw, i + 1, Append(res, i))
    ELSE IF Len(res) > 0 /\ Len(res) < 4
         THEN scan_collecting_blank(lines, kw, i + 1, Append(res, i))
    ELSE scan_collecting_blank(lines, kw, i + 1, res)

\* One of the two scans: the indices of the lines collected into result_lines.
RECURSIVE scan(_, _, _, _)
scan(lines, kw, i, res) ==
    IF i > Len(lines) THEN res
    ELSE IF startswith(lines[i], kw) /\ Len(res) < 4
         THEN scan(lines, kw, i + 1, Append(res, i))
    ELSE IF Len(res) > 0 /\ Len(res) < 4 /\ strip(lines[i]) # <<>>
         THEN scan(lines, kw, i + 1, Append(res, i))
    ELSE scan(lines, kw, i + 1, res)

result_lines(lines, kw) == scan(lines, kw, 1, <<>>)

\* result_lines[-1].split()[1:]
last_line_values(lines, res) == Tail(split(lines[res[Len(res)]]))

\* last_line_values[-3:] of the light block: the tokens as written
radiance_of(lines, res) ==
    LET v == last_line_values(lines, res) IN From(v, Len(v) - 2)

\* last_line_values[:3] of the source block
direction_tokens(lines, res) == Upto(last_line_values(lines, res), 3)

\* The whole function: what it raises ("" when it returns) and what it returns.
find_sun_properties(content) ==
    LET lines == readlines(content)
        light == result_lines(lines, void_light_solar)
        source == result_lines(lines, solar_source_sun)
        toks == IF source = <<>> THEN <<>> ELSE direction_tokens(lines, source)
        floats_ok == \A i \in 1..Len(toks) : is_float(toks[i])
        XYZ == IF floats_ok THEN [i \in 1..Len(toks) |-> NumVal(toks[i][1])] ELSE <<>>
        alt == asin_deg(XYZ[3])
        ratio == clamp(xDIVcos(XYZ[1], alt))
        azimuth_x == -asin_deg(ratio)
        e == IF ~floats_ok THEN "find_sun_properties:185 ValueError float"
             ELSE IF source = <<>> THEN "find_sun_properties:189 UnboundLocalError"
             ELSE IF Len(XYZ) < 3 THEN "find_sun_properties:189 IndexError"
             ELSE IF Abs(XYZ[3]) > 1000 THEN "find_sun_properties:189 ValueError math domain"
             ELSE IF ratio < -1000 THEN "find_sun_properties:198 ValueError math domain"
             ELSE IF branch(XYZ[1], XYZ[2]) = 0 THEN "find_sun_properties:207 UnboundLocalError"
             ELSE IF light = <<>> THEN "find_sun_properties:209 UnboundLocalError"
             ELSE ""
    IN [err |-> e,
        light |-> light,
        source |-> source,
        RGB |-> IF e = "" THEN radiance_of(lines, light) ELSE <<>>,
        XYZ |-> IF e = "" THEN XYZ ELSE <<>>,
        altitude |-> IF e = "" THEN alt ELSE 0,
        azimuth |-> IF e = "" THEN azimuth_of(XYZ[1], XYZ[2], azimuth_x) ELSE 0]

\* ---------------------------------------------------------------- inputs
\* The atoms of a line, one space between them.
RECURSIVE W(_)
W(atoms) ==
    IF Len(atoms) <= 1 THEN atoms ELSE <<atoms[1], "SP">> \o W(Tail(atoms))

Coords == {"-1", "-0.5", "0", "0.5", "1"}
Directions == {<<x, y, z>> : x \in Coords, y \in Coords, z \in Coords}
Direction0 == <<"0.5", "-0.5", "0.5">>

\* Layouts of the light-material block, as lines without their terminators:
\* the usual four lines, the same with stray whitespace, all on one line, a
\* blank line inside, a short last line, a non-numeric last line, a comment
\* after the keywords, the keyword line twice, and the keywords only inside a
\* comment.
LightLayouts ==
    { << W(<<"void", "light", "solar">>), W(<<"0">>), W(<<"0">>), W(<<"3", "1", "1", "1">>) >>,
      << <<"void", "TAB", "light", "SP", "SP", "solar", "SP">>, <<"SP", "0">>, W(<<"0">>),
         <<"3", "SP", "SP", "1", "TAB", "1", "SP", "1">> >>,
      << W(<<"void", "light", "solar", "0", "0", "3", "1", "1", "1">>) >>,
      << W(<<"void", "light", "solar">>), <<>>, W(<<"0">>), W(<<"0">>), W(<<"3", "1", "1", "1">>) >>,
      << W(<<"void", "light", "solar">>), W(<<"0">>), W(<<"0">>), W(<<"3", "1", "1">>) >>,
      << W(<<"void", "light", "solar">>), W(<<"0">>), W(<<"0">>), W(<<"3", "x", "x", "x">>) >>,
      << W(<<"void", "light", "solar", "#">>), W(<<"0">>), W(<<"0">>), W(<<"3", "1", "1", "1">>) >>,
      << W(<<"void", "light", "solar">>), W(<<"void", "light", "solar">>), <<>>, W(<<"0">>),
         W(<<"3", "1", "1", "1">>) >>,
      << W(<<"#", "void", "light", "solar">>) >> }

\* Layouts of the source-primitive block for direction d.
SourceLayouts(d) ==
    LET dir == W(<<"4", d[1], d[2], d[3], "0.5">>)
    IN { << W(<<"solar", "source", "sun">>), W(<<"0">>), W(<<"0">>), dir >>,
         << W(<<"solar", "source", "sun", "0", "0", "4", d[1], d[2], d[3], "0.5">>) >>,
         << W(<<"solar", "source", "sun">>), <<>>, W(<<"0">>), W(<<"0">>), dir >>,
         << W(<<"solar", "source", "sun">>), dir >>,
         << W(<<"#", "solar", "source", "sun">>) >> }

PreLines == { W(<<"#", "sky">>), W(<<"!gensky", "x">>) }
Pres == UNION { [1..n -> PreLines] : n \in 0..MaxPre }

Mids == { <<>>, << <<>> >> }

\* The lines after the source block, each different from the others.
PostTags == <<"0", "1", "3", "4", "0.5">>
Posts == { [j \in 1..n |-> W(<<"x", PostTags[j]>>)] : n \in 0..MaxPost }

\* A text file of these lines, every line terminated.
RECURSIVE file_of(_)
file_of(ls) ==
    IF ls = <<>> THEN <<>> ELSE Head(ls) \o <<"NL">> \o file_of(Tail(ls))

StandardLight ==
    << W(<<"void", "light", "solar">>), W(<<"0">>), W(<<"0">>), W(<<"3", "1", "1", "1">>) >>
StandardSource(d) ==
    << W(<<"solar", "source", "sun">>), W(<<"0">>), W(<<"0">>), W(<<"4", d[1], d[2], d[3], "0.5">>) >>

\* Every light layout with the usual source block, and every source layout
\* with the usual light block.
Blocks(mid) ==
    { L \o mid \o StandardSource(Direction0) : L \in LightLayouts }
    \cup { StandardLight \o mid \o S : S \in SourceLayouts(Direction0) }

\* Every such pair of blocks among other lines, and the usual layout with
\* every direction.
Files ==
    { file_of(pre \o B \o post) :
        pre \in Pres, B \in UNION { Blocks(mid) : mid \in Mids }, post \in Posts }
    \cup
    { file_of(StandardLight \o StandardSource(d)) : d \in Directions }

\* What the executed !gensky / !gendaylit command may print.
CmdOutputs ==
    { <<>>,
      <<"SP", "#", "SP", "sky", "NL">>,
      <<"#", "NL", "x", "SP", "NL">> }

\* What the two irradiance probes may print (W/m2).
Irrad001s == {1, 2}
IrradNNNs == {-1, 0, 2}

\* -------------------------------------------------------------- the run
Init ==
    /\ pc = "check_templates"
    /\ err = ""
    /\ orig \in Files
    /\ sunfile = orig
    /\ executed = FALSE
    /\ results = <<>>
    /\ light_lines = <<>>
    /\ source_lines = <<>>
    /\ RGB_sun_radiance = <<>>
    /\ XYZ_sun_direction = <<>>
    /\ altitude = 0
    /\ azimuth = 0
    /\ sun001 = <<>>
    /\ rendered = FALSE
    /\ num_suns = 0
    /\ irrad_001 = 0
    /\ irrad_NNN = 0
    /\ rad_NNN = 0
    /\ nnn_sun = "absent"
    /\ new_lines = <<>>
    /\ fnstatic_exists = FALSE
    /\ fnstatic = <<>>

\* raise: the run ends with the exception e.
raise(e) == pc' = "failed" /\ err' = e

check_templates ==
    /\ pc = "check_templates"
    /\ \E missing_files \in BOOLEAN :
          IF missing_files
          THEN raise("check_templates:49 FileNotFoundError")
          ELSE pc' = "execute_gendaylit_gensky" /\ err' = err
    /\ UNCHANGED <<orig, sunfile, executed, results, light_lines, source_lines,
                   RGB_sun_radiance, XYZ_sun_direction, altitude, azimuth,
                   sun001, rendered, num_suns, irrad_001, irrad_NNN, rad_NNN,
                   nnn_sun, new_lines, fnstatic_exists, fnstatic>>

\* The index of the first line holding a macro, 0 when there is none.
macro_line(lines) ==
    IF \E i \in 1..Len(lines) : has_macro(lines[i])
    THEN CHOOSE i \in 1..Len(lines) :
             has_macro(lines[i]) /\ \A j \in 1..(i - 1) : ~has_macro(lines[j])
    ELSE 0

\* check_output(...).decode('UTF-8').replace('\n', '') and then .strip()
command_results(out) == strip(SelectSeq(out, LAMBDA a : a # "NL"))

execute_gendaylit_gensky ==
    /\ pc = "execute_gendaylit_gensky"
    /\ LET lines == readlines(sunfile)
           i == macro_line(lines)
       IN IF i = 0
          THEN /\ sunfile' = writelines(lines)
               /\ pc' = "check_sun_description"
               /\ UNCHANGED <<err, executed, results>>
          ELSE \/ /\ raise("execute_gendaylit_gensky:75 CalledProcessError")
                  /\ UNCHANGED <<sunfile, executed, results>>
               \/ \E out \in CmdOutputs :
                     /\ results' = command_results(out)
                     /\ sunfile' = writelines([lines EXCEPT ![i] = command_results(out)])
                     /\ executed' = TRUE
                     /\ pc' = "check_sun_description"
                     /\ err' = err
    /\ UNCHANGED <<orig, light_lines, source_lines,
                   RGB_sun_radiance, XYZ_sun_direction, altitude, azimuth,
                   sun001, rendered, num_suns, irrad_001, irrad_NNN, rad_NNN,
                   nnn_sun, new_lines, fnstatic_exists, fnstatic>>

\* modified_line with the whitespace runs deleted instead of collapsed to a space
modified_line_deleting_ws(line) ==
    LET l1 == IF re_search(line, void_light_solar)
              THEN SelectSeq(line, LAMBDA a : ~IsWs(a)) ELSE line
        l2 == IF re_search(l1, solar_source_sun)
              THEN SelectSeq(l1, LAMBDA a : ~IsWs(a)) ELSE l1
    IN strip(l2)

\* One line of the loop: whitespace collapsed when a pattern matches, then strip().
modified_line(line) ==
    LET l1 == IF re_search(line, void_light_solar) THEN sub_ws(line) ELSE line
        l2 == IF re_search(l1, solar_source_sun) THEN sub_ws(l1) ELSE l1
    IN strip(l2)

check_sun_description ==
    /\ pc = "check_sun_description"
    /\ LET lines == readlines(sunfile)
           has_void_light_solar ==
               \E i \in 1..Len(lines) : re_search(lines[i], void_light_solar)
           has_solar_source_sun ==
               \E i \in 1..Len(lines) : re_search(lines[i], solar_source_sun)
       IN /\ sunfile' = join([i \in 1..Len(lines) |-> modified_line(lines[i])])
          /\ IF has_void_light_solar /\ has_solar_source_sun
             THEN pc' = "find_sun_properties" /\ err' = err
             ELSE raise("check_sun_description:127 ValueError")
    /\ UNCHANGED <<orig, executed, results, light_lines, source_lines,
                   RGB_sun_radiance, XYZ_sun_direction, altitude, azimuth,
                   sun001, rendered, num_suns, irrad_001, irrad_NNN, rad_NNN,
                   nnn_sun, new_lines, fnstatic_exists, fnstatic>>

find_sun_properties_step ==
    /\ pc = "find_sun_properties"
    /\ LET r == find_sun_properties(sunfile)
       IN /\ light_lines' = r.light
          /\ source_lines' = r.source
          /\ RGB_sun_radiance' = r.RGB
          /\ XYZ_sun_direction' = r.XYZ
          /\ altitude' = r.altitude
          /\ azimuth' = r.azimuth
          /\ IF r.err = ""
             THEN pc' = "set_irradiance" /\ err' = err
             ELSE raise(r.err)
    /\ UNCHANGED <<orig, sunfile, executed, results,
                   sun001, rendered, num_suns, irrad_001, irrad_NNN, rad_NNN,
                   nnn_sun, new_lines, fnstatic_exists, fnstatic>>

\* 001-sun_template.rad, its three placeholders as tokens
sun_template == << <<"RADR">>, <<"RADG">>, <<"RADB">> >>

set_irradiance ==
    /\ pc = "set_irradiance"
    /\ IF Len(RGB_sun_radiance) < 3
       THEN /\ sun001' = sun_template
            /\ raise("set_irradiance:232 IndexError")
       ELSE /\ sun001' = RGB_sun_radiance
            /\ pc' = "gensunvecs"
            /\ err' = err
    /\ UNCHANGED <<orig, sunfile, executed, results, light_lines, source_lines,
                   RGB_sun_radiance, XYZ_sun_direction, altitude, azimuth,
                   rendered, num_suns, irrad_001, irrad_NNN, rad_NNN,
                   nnn_sun, new_lines, fnstatic_exists, fnstatic>>

gensunvecs ==
    /\ pc = "gensunvecs"
    /\ rendered' = TRUE
    /\ \E count \in 0..MaxCount : num_suns' = count
    /\ pc' = "gensunrad"
    /\ UNCHANGED <<err, orig, sunfile, executed, results, light_lines, source_lines,
                   RGB_sun_radiance, XYZ_sun_direction, altitude, azimuth,
                   sun001, irrad_001, irrad_NNN, rad_NNN,
                   nnn_sun, new_lines, fnstatic_exists, fnstatic>>

\* "The Radiance in NNN-sun.rad was set arbitrarily at 1E4"
PlaceholderRadiance == 10000

\* rad_NNN = 10000 * irrad_001 / irrad_NNN, for irrad_NNN # 0 (exact for the
\* probe values drawn here)
scale(i1, iN) == Sgn(i1) * Sgn(iN) * ((PlaceholderRadiance * Abs(i1)) \div Abs(iN))

\* The lines of NNN-sun_xform.rad: xform's header and one line per mini sun.
xform(count) ==
    << <<"#", "SP", "xform", "NL">> >>
    \o [k \in 1..count |-> <<"solar", "SP", "source", "SP", "mini", "NL">>]

\* lines.index(x): the 0-based index of the first line equal to x, -1 for ValueError
index(lines, x) ==
    IF \E i \in 1..Len(lines) : lines[i] = x
    THEN (CHOOSE i \in 1..Len(lines) :
              lines[i] = x /\ \A j \in 1..(i - 1) : lines[j] # x) - 1
    ELSE -1

light_marker == <<"void", "SP", "light", "SP", "solar", "NL">>
source_marker == <<"solar", "SP", "source", "SP", "sun", "NL">>

\* "+ 4": the source block is taken to be the keyword line and three more lines
BlockSpan == 4

start_index(lines) == index(lines, light_marker)
end_index(lines) == index(lines, source_marker) + BlockSpan

\* lines[start:end] = new, 0-based as in Python (an empty slice when end < start)
splice(lines, start, end, new) ==
    Upto(lines, start) \o new \o From(lines, Max(start, end) + 1)

\* The whole function.  <pdim>-sun.vec exists whenever gensunvecs returned (it
\* has read it), so the FileNotFoundError of line 302 cannot be raised here.
gensunrad ==
    /\ pc = "gensunrad"
    /\ rendered' = TRUE
    /\ \/ \* a probe prints nothing a float can be read from
          /\ nnn_sun' = "1E4"
          /\ raise("gensunrad:316 ValueError float")
          /\ UNCHANGED <<irrad_001, irrad_NNN, rad_NNN, new_lines, fnstatic_exists, fnstatic>>
       \/ \E i1 \in Irrad001s, iN \in IrradNNNs :
             /\ irrad_001' = i1
             /\ irrad_NNN' = iN
             /\ IF iN = 0
                THEN /\ nnn_sun' = "1E4"
                     /\ raise("gensunrad:326 ZeroDivisionError")
                     /\ UNCHANGED <<rad_NNN, new_lines, fnstatic_exists, fnstatic>>
                ELSE LET lines == readlines(sunfile)
                         new == xform(num_suns)
                     IN /\ rad_NNN' = scale(i1, iN)
                        /\ nnn_sun' = "rad_NNN"
                        /\ new_lines' = new
                        /\ fnstatic_exists' = TRUE
                        /\ IF index(lines, light_marker) = -1
                           THEN /\ fnstatic' = sunfile
                                /\ raise("gensunrad:349 ValueError index")
                           ELSE IF index(lines, source_marker) = -1
                           THEN /\ fnstatic' = sunfile
                                /\ raise("gensunrad:350 ValueError index")
                           ELSE /\ fnstatic' = writelines(
                                       splice(lines, start_index(lines), end_index(lines), new))
                                /\ pc' = "done"
                                /\ err' = err
    /\ UNCHANGED <<orig, sunfile, executed, results, light_lines, source_lines,
                   RGB_sun_radiance, XYZ_sun_direction, altitude, azimuth,
                   sun001, num_suns>>

Next ==
    \/ check_templates
    \/ execute_gendaylit_gensky
    \/ check_sun_description
    \/ find_sun_properties_step
    \/ set_irradiance
    \/ gensunvecs
    \/ gensunrad

Spec == Init /\ [][Next]_vars

\* ---------------------------------------------------------------- claims
FindErrors ==
    { "find_sun_properties:185 ValueError float",
      "find_sun_properties:189 UnboundLocalError",
      "find_sun_properties:189 IndexError",
      "find_sun_properties:189 ValueError math domain",
      "find_sun_properties:198 ValueError math domain",
      "find_sun_properties:207 UnboundLocalError",
      "find_sun_properties:209 UnboundLocalError" }

\* find_sun_properties returned to main.
returned == pc \in {"set_irradiance", "gensunvecs", "gensunrad", "done"}
            \/ (pc = "failed" /\ (err = "set_irradiance:232 IndexError"
                                  \/ err \in { "gensunrad:316 ValueError float",
                                               "gensunrad:326 ZeroDivisionError",
                                               "gensunrad:349 ValueError index",
                                               "gensunrad:350 ValueError index" }))

\* find_sun_properties ran its two scans (it returned or raised).
scanned == returned \/ (pc = "failed" /\ err \in FindErrors)

\* find_sun_properties has just run: its results are as it left them.
just_scanned == pc = "set_irradiance" \/ (pc = "failed" /\ err \in FindErrors)

Last(s) == s[Len(s)]

\* The normalized description, as find_sun_properties and gensunrad read it.
Lines == readlines(sunfile)

\* C1: splice correctness.  When the run composes a scene from a description
\* whose light block (as scanned) lies before its source block (as scanned),
\* the composed scene is the K lines before the light block, then the whole
\* rotated text, then the M lines after the source block, nothing else.
C1_SpliceCorrect ==
    (pc = "done" /\ Last(light_lines) < source_lines[1])
        => fnstatic = writelines(Upto(Lines, light_lines[1] - 1)
                                 \o new_lines
                                 \o From(Lines, Last(source_lines) + 1))

\* C3: all or nothing.  A run that ended in an error left no composed scene
\* file, and a run that ended well left one.
C3_AllOrNothing ==
    /\ pc = "failed" => ~fnstatic_exists
    /\ pc = "done" => fnstatic_exists

\* The tokens at the positions find_sun_properties reads are three numbers.
three_numbers(toks) == Len(toks) = 3 /\ \A i \in 1..3 : is_float(toks[i])

parse_defect ==
    \/ light_lines = <<>>
    \/ source_lines = <<>>
    \/ ~three_numbers(radiance_of(Lines, light_lines))
    \/ ~three_numbers(direction_tokens(Lines, source_lines))

\* C4: parse failures abort before rendering.  When a block is missing or the
\* last collected line of a block lacks three numbers where they are read, the
\* run fails in find_sun_properties: 001-sun.rad is never written and no
\* renderer command runs.
C4_ParseAbortsBeforeRendering ==
    (scanned /\ parse_defect)
        => (err \in FindErrors /\ sun001 = <<>> /\ ~rendered)

\* C5: whenever find_sun_properties returns, exactly one azimuth branch
\* applies to the direction and 0 <= azimuth < 360.
C5_AzimuthRange ==
    returned =>
        LET x == XYZ_sun_direction[1]
            y == XYZ_sun_direction[2]
        IN /\ Cardinality({b \in {1, 2, 3} :
                   \/ b = 1 /\ x < 0 /\ y < 0
                   \/ b = 2 /\ y >= 0
                   \/ b = 3 /\ x >= 0 /\ y < 0}) = 1
           /\ 0 <= azimuth
           /\ azimuth < 360

\* C6: zero samples are fatal.  gensunrad is never entered with count = 0 and
\* no composed scene is written for 0 suns.
C6_NoZeroSuns ==
    /\ pc = "gensunrad" => num_suns >= 1
    /\ fnstatic_exists => num_suns >= 1

\* C7: the placeholder 1E4 in the multi-source file is only ever replaced by
\* 10000 * I1 / I_N with I_N > 0.
C7_ScaleNeedsPositiveIrradiance ==
    nnn_sun = "rad_NNN"
        => (irrad_NNN > 0 /\ rad_NNN * irrad_NNN = PlaceholderRadiance * irrad_001)

\* C8: the azimuth computation never raises a math domain error on the ratio
\* x / cos(altitude), whichever side of [-1, 1] it falls on.
C8_NoDomainErrorOnRatio ==
    err # "find_sun_properties:198 ValueError math domain"

\* C10: validator, parser and composer agree.  For a description the validator
\* accepted and find_sun_properties returned from, gensunrad finds both
\* markers and the span it replaces runs from the first line of the light scan
\* through the last line of the source scan.
C10_BlocksAgree ==
    returned =>
        /\ index(Lines, light_marker) # -1
        /\ index(Lines, source_marker) # -1
        /\ start_index(Lines) + 1 = light_lines[1]
        /\ end_index(Lines) = Last(source_lines)

\* The description with the macro line replaced by what the command printed.
expected_content ==
    IF executed
    THEN LET ol == readlines(orig)
             i == macro_line(ol)
         IN writelines(Upto(ol, i - 1)) \o results \o writelines(From(ol, i + 1))
    ELSE orig

\* C2 as stated: the description always holds the tokens it held at the start.
C2_ReadOnly == split(sunfile) = split(orig)

\* C2, amended: the description holds the tokens it held at the start, except
\* that the first line holding !gendaylit or !gensky, with its terminator, is
\* replaced by the stripped output of the command once it has been executed.
C2_OnlyMacroLineReplaced ==
    /\ split(sunfile) = split(expected_content)
    /\ executed => /\ macro_line(readlines(orig)) # 0
                   /\ \E out \in CmdOutputs : results = command_results(out)

\* A run that executed a macro with output, normalized the description and
\* composed a scene.
C2_Witness ==
    pc = "done" /\ executed /\ results # <<>> /\ sunfile # expected_content

\* What C9 says of one scan, res the indices collected for keyword kw;
\* consecutive: no line at all, or no non-blank line, is skipped between two
\* collected lines.
scan_ok(res, kw, consecutive) ==
    LET starts == {i \in 1..Len(Lines) : startswith(Lines[i], kw)}
    IN /\ (res = <<>>) <=> (starts = {})
       /\ Len(res) <= 4
       /\ res # <<>> => (res[1] \in starts /\ \A i \in starts : res[1] <= i)
       /\ \A j \in 1..Len(res) : strip(Lines[res[j]]) # <<>>
       /\ \A j \in 1..(Len(res) - 1) :
             /\ res[j] < res[j + 1]
             /\ IF consecutive
                THEN res[j + 1] = res[j] + 1
                ELSE \A m \in (res[j] + 1)..(res[j + 1] - 1) : strip(Lines[m]) = <<>>
       /\ \A k \in 1..Len(Lines) :
             LET early == scan(Upto(Lines, k), kw, 1, <<>>)
             IN Len(early) = 4 => res = early

\* C9 as stated: each scan collects a run of consecutive input lines.
C9_ConsecutiveLines ==
    just_scanned => /\ scan_ok(light_lines, void_light_solar, TRUE)
               /\ scan_ok(source_lines, solar_source_sun, TRUE)

\* C9, amended: each scan collects nothing iff no line starts with the
\* keyword, at most 4 lines, the first of them the first keyword line, no
\* blank line, in input order with only blank lines skipped between two
\* collected lines; once 4 lines are collected no later line changes the result.
C9_BlockScanner ==
    just_scanned => /\ scan_ok(light_lines, void_light_solar, FALSE)
               /\ scan_ok(source_lines, solar_source_sun, FALSE)

\* A source scan that skipped a blank line, collected 4 lines and left lines
\* of the input behind it.
C9_Witness ==
    /\ just_scanned
    /\ Len(source_lines) = 4
    /\ \E j \in 1..3 : source_lines[j + 1] > source_lines[j] + 1
    /\ Len(Lines) > Last(source_lines)

====
